---- MODULE Spec2Model ----
(***************************************************************************)
(* GenericClient (SRC/element/generic/GenericClient.cpp): the element that *)
(* stands in for a remote specimen.  The model keeps the element's fields, *)
(* the two contiguous buffers sData / rData with their aliased views, the  *)
(* channel, and what each public operation puts on the channel.            *)
(*                                                                         *)
(* Conventions.  Indices into full space and local DOF numbers are 0-based *)
(* as in the source; TLA+ sequences are 1-based, so C index k of a buffer  *)
(* is element k+1 of the sequence.  A null pointer to a buffer is the      *)
(* empty sequence.  Dereferencing a null pointer ends the process: the     *)
(* operation stops at that statement and pc becomes "crashed".             *)
(***************************************************************************)
EXTENDS Integers, Sequences, FiniteSets, TLC

\* ------------------------------------------------------------------ bounds
\* number of different trial states of the domain
MaxTrial == 2
\* largest node DOF count and largest requested buffer capacity of the
\* configurations of the mapping specification
MaxNdf == 3
MaxReq == 17
\* entries delivered by a receive that is cut short
ShortRead == 1
\* number of steps (operations on the element, steps of the domain) of a run
MaxOps == 4

Trials == 1..MaxTrial

\* --------------------------------------------------------- command codes
\* the values GenericClient.h gives the RemoteTest_ names
RemoteTest_setTrialResponse == 3
RemoteTest_commitState == 5
RemoteTest_getForce == 10
RemoteTest_getInitialStiff == 12
RemoteTest_getTangentStiff == 13
RemoteTest_getDamp == 14
RemoteTest_getMass == 15
RemoteTest_DIE == 99

QueryCommands ==
  {RemoteTest_getForce, RemoteTest_getInitialStiff, RemoteTest_getTangentStiff,
   RemoteTest_getDamp, RemoteTest_getMass}

\* ------------------------------------------------------------ arithmetic
RECURSIVE SumSeq(_)
SumSeq(s) == IF s = <<>> THEN 0 ELSE s[1] + SumSeq(Tail(s))

SumTo(s, n) == SumSeq(SubSeq(s, 1, n))

Max2(a, b) == IF a >= b THEN a ELSE b

\* ------------------------------------------------- Vector / Matrix / ID
ZeroVector(n) == [k \in 1..n |-> 0]

ZeroMatrix(n) == [p \in (0..(n-1)) \X (0..(n-1)) |-> 0]

\* Matrix(double *data, nRows, nCols): the view of a buffer as an n x n
\* matrix; OpenSees stores a Matrix column by column
MatrixView(buf, n) == [p \in (0..(n-1)) \X (0..(n-1)) |-> buf[p[2]*n + p[1] + 1]]

\* Vector(double *data, size): the view of size entries from C index off
VectorView(buf, off, n) == [k \in 1..n |-> buf[off + k]]

\* variant: M(rows(i), cols(j)) += V(j,i)
MatrixAssembleTransposed(M, V, rows, cols) ==
  [p \in DOMAIN M |->
     M[p] + SumSeq([i \in 1..Len(rows) |->
                SumSeq([j \in 1..Len(cols) |->
                   IF rows[i] = p[1] /\ cols[j] = p[2]
                     THEN V[<<j-1, i-1>>] ELSE 0])])]

\* Matrix::Assemble(V, rows, cols): M(rows(i), cols(j)) += V(i,j), for the
\* positions inside M and the entries V has
MatrixAssemble(M, V, rows, cols) ==
  [p \in DOMAIN M |->
     M[p] + SumSeq([i \in 1..Len(rows) |->
                SumSeq([j \in 1..Len(cols) |->
                   IF rows[i] = p[1] /\ cols[j] = p[2] /\ <<i-1, j-1>> \in DOMAIN V
                     THEN V[<<i-1, j-1>>] ELSE 0])])]

\* Vector::Assemble(V, ID l): v(l(i)) += V(i), for the positions inside v and
\* the entries V has
VectorAssembleID(v, V, l) ==
  [k \in 1..Len(v) |->
     v[k] + SumSeq([i \in 1..Len(l) |->
                IF l[i] = k-1 /\ i <= Len(V) THEN V[i] ELSE 0])]

\* Vector::Assemble(V, init_pos): v(init_pos + i) += V(i) when all of V fits
\* into v from init_pos on, nothing otherwise
VectorAssembleAt(v, V, pos) ==
  [k \in 1..Len(v) |->
     IF pos + Len(V) <= Len(v) /\ k-1 >= pos /\ k-1 < pos + Len(V)
       THEN v[k] + V[k - pos] ELSE v[k]]

\* Vector::operator()(const ID &rows): the entries of v at the positions rows
VectorSelect(v, rows) == [i \in 1..Len(rows) |-> v[rows[i] + 1]]

\* Vector::addMatrixVector(1.0, M, x, f): v + f * M x
AddMatrixVector(v, M, x, f) ==
  [k \in 1..Len(v) |->
     v[k] + f * SumSeq([c \in 1..Len(x) |-> M[<<k-1, c-1>>] * x[c]])]

\* Vector::addVector(1.0, w, f): v + f * w
AddVector(v, w, f) == [k \in 1..Len(v) |-> v[k] + f * w[k]]

\* ---------------------------------------------------------------- state
VARIABLES
  cfg,            \* constructor arguments: node DOF counts of the model,
                  \* per-node DOF selection, requested dataSize, addRayleigh
  pc,             \* "run", "crashed" (null dereference) or "destroyed"
  theNodes,       \* per node: TRUE when the node pointer is set
  theDomain,      \* TRUE when DomainComponent holds a domain
  numDOF, numBasicDOF, basicDOF,
  dataSize,
  theMatrix, theVector, theLoad, theInitStiff, theMass,
  theChannel,     \* "null", "unconnected", "up", "deleted"
  sData, rData,   \* <<>> while not allocated
  viewSize,       \* db->Size(), the length setupConnection gave the views db,
                  \* vb, ab, qDaq and rMatrix; 0 while they do not exist
  dbCtrl, vbCtrl, abCtrl,
  initStiffFlag, massFlag,
  trial,          \* the domain's current trial state and time
  wire,           \* what the most recent operation did on the channel
  last,           \* the most recent operation and what it returned
  sent,           \* how often each message kind was sent, channels opened
  ops,            \* number of operations called so far
  remote,         \* the trial state the remote specimen last received, 0: none
  eleInfo         \* what getResponse handed to its Information argument

vars == <<cfg, pc, theNodes, theDomain, numDOF, numBasicDOF, basicDOF, dataSize,
          theMatrix, theVector, theLoad, theInitStiff, theMass, theChannel,
          sData, rData, dbCtrl, vbCtrl, abCtrl, initStiffFlag, massFlag,
          trial, wire, last, sent, ops, remote, eleInfo, viewSize>>

numExternalNodes == Len(cfg.ndf)

\* ------------------------------------------------------- the domain side
\* Node::getTrialDisp / getTrialVel / getTrialAccel of node i in trial state s
TrialDisp(s, i) == [j \in 1..cfg.ndf[i] |-> 1000 + 100*s + 10*i + j]
TrialVel(s, i) == [j \in 1..cfg.ndf[i] |-> 2000 + 100*s + 10*i + j]
TrialAccel(s, i) == [j \in 1..cfg.ndf[i] |-> 3000 + 100*s + 10*i + j]

\* entry k (C index k-1) of the remote process's reply to command code while
\* the specimen is in the trial state r it last received
Reply(code, r, k) == 1000*code + 100*r + k

\* Element::getDamp() of the base class: the Rayleigh damping matrix, which
\* the surrounding framework computes
RayleighDamp(n) == [p \in (0..(n-1)) \X (0..(n-1)) |-> IF p[1] = p[2] THEN 7 ELSE 3]

\* -------------------------------------------------------- configurations
\* DOF selections of a node with n DOFs: one DOF, two different DOFs in either
\* order, or the first three DOFs
Selections(n) ==
  {<<a>> : a \in 0..(n-1)}
    \cup {p \in (0..(n-1)) \X (0..(n-1)) : p[1] # p[2]}
    \cup (IF n >= 3 THEN {<<0, 1, 2>>} ELSE {})

ConfigsOf(nn) ==
  {c \in [ndf : [1..nn -> 1..MaxNdf], dof : [1..nn -> UNION {Selections(n) : n \in 1..MaxNdf}],
          req : {0, MaxReq - 2, MaxReq}, ray : {0}] :
     \A i \in 1..nn : c.dof[i] \in Selections(c.ndf[i])}

\* every list of one or two nodes with a valid DOF selection
AllConfigs == UNION {ConfigsOf(nn) : nn \in {1, 2}}

\* the configurations the protocol specification runs
ProtocolConfigs ==
  {[ndf |-> <<2>>, dof |-> << <<1>> >>, req |-> 0, ray |-> 0],
   [ndf |-> <<2, 1>>, dof |-> << <<0>>, <<0>> >>, req |-> 9, ray |-> 1]}

\* ------------------------------------------------------------ the channel
\* what one round trip can meet: the reply arrives whole ("ok"), the receive
\* is cut short after ShortRead entries of it, or the send fails and nothing
\* arrives
IOs == {"ok", "recvShort", "sendFail"}

\* what a send without reply can meet
SendIOs == {"ok", "sendFail"}

\* variant: the command code alone goes out
SendVectorCodeOnly(sd, io) ==
  [rv |-> IF io = "sendFail" THEN -1 ELSE 0,
   ev |-> <<[kind |-> "send", data |-> <<sd[1]>>, ok |-> io # "sendFail"]>>]

\* theChannel->sendVector(0, 0, *sendData, 0): the whole of sendData goes out
SendVector(sd, io) ==
  [rv |-> IF io # "sendFail" THEN 0 ELSE -1,
   ev |-> <<[kind |-> "send", data |-> sd, ok |-> io # "sendFail"]>>]

\* theChannel->recvVector(0, 0, *recvData, 0): fills rData from the front with
\* the reply to command code
RecvVector(rd, code, io) ==
  LET n == IF io = "ok" THEN Len(rd)
           ELSE IF io = "recvShort" THEN ShortRead ELSE 0
  IN [rv |-> IF io = "ok" THEN 0 ELSE -1,
      rd |-> [k \in 1..Len(rd) |-> IF k <= n THEN Reply(code, remote, k) ELSE rd[k]],
      ev |-> <<[kind |-> "recv", data |-> <<>>, ok |-> io = "ok"]>>]

\* variant: vb starts one entry early, on the last entry of db
vbOverlapping(sd) == VectorView(sd, viewSize, viewSize)

\* ------------------------------------------------------- aliased views
\* db, vb, ab, t: views of sData; qDaq, rMatrix: views of rData
db(sd) == VectorView(sd, 1, viewSize)
vb(sd) == VectorView(sd, 1 + viewSize, viewSize)
ab(sd) == VectorView(sd, 1 + 2*viewSize, viewSize)
t(sd) == VectorView(sd, 1 + 3*viewSize, 1)
qDaq(rd) == VectorView(rd, 0, viewSize)
rMatrix(rd) == MatrixView(rd, viewSize)

\* (*view)(i) = v(i) for all i: a write through the view of Len(v) entries
\* from C index off lands in the buffer
ViewWrite(buf, off, v) ==
  [k \in 1..Len(buf) |-> IF k > off /\ k <= off + Len(v) THEN v[k - off] ELSE buf[k]]

\* sData[0] = code
SetCommand(sd, code) == [sd EXCEPT ![1] = code]

\* rMatrix->Zero(): zeroes the entries of rData that rMatrix views
ZeroRMatrix(rd) ==
  [k \in 1..Len(rd) |-> IF k <= viewSize * viewSize THEN 0 ELSE rd[k]]

\* ---------------------------------------------------------- bookkeeping
NoSent == [channels |-> 0, handshakes |-> 0, initStiff |-> 0, mass |-> 0, die |-> 0]

Count(evs, code) ==
  Cardinality({k \in 1..Len(evs) : evs[k].kind = "send" /\ evs[k].data[1] = code})

CountKind(evs, kind) == Cardinality({k \in 1..Len(evs) : evs[k].kind = kind})

\* the counters after an operation that put evs on the channel
Tally(evs) ==
  [channels |-> sent.channels + CountKind(evs, "open"),
   handshakes |-> sent.handshakes + CountKind(evs, "handshake"),
   initStiff |-> sent.initStiff + Count(evs, RemoteTest_getInitialStiff),
   mass |-> sent.mass + Count(evs, RemoteTest_getMass),
   die |-> sent.die + Count(evs, RemoteTest_DIE)]

\* no getResponse was the most recent call
NoInfo == [id |-> 0, data |-> <<>>]

\* failed: the operation handed a failure status to its caller
Returned(op, failed) == [op |-> op, failed |-> failed]

\* ------------------------------------------------------------ constructor
\* the state after GenericClient(tag, nodes, dof, port, addr, ssl, udp,
\* datasize, addRay)
InitWith(configs) ==
  /\ cfg \in configs
  /\ pc = "run"
  /\ theNodes = [i \in 1..Len(cfg.ndf) |-> FALSE]
  /\ theDomain = FALSE
  /\ numDOF = 0
  /\ numBasicDOF = SumSeq([i \in 1..Len(cfg.ndf) |-> Len(cfg.dof[i])])
  /\ basicDOF = ZeroVector(numBasicDOF)
  /\ dataSize = cfg.req
  /\ theMatrix = ZeroMatrix(1)
  /\ theVector = ZeroVector(1)
  /\ theLoad = ZeroVector(1)
  /\ theInitStiff = ZeroMatrix(1)
  /\ theMass = ZeroMatrix(1)
  /\ theChannel = "null"
  /\ sData = <<>>
  /\ rData = <<>>
  /\ dbCtrl = ZeroVector(numBasicDOF)
  /\ vbCtrl = ZeroVector(numBasicDOF)
  /\ abCtrl = ZeroVector(numBasicDOF)
  /\ initStiffFlag = FALSE
  /\ massFlag = FALSE
  /\ trial = 1
  /\ wire = <<>>
  /\ last = Returned("construct", FALSE)
  /\ sent = NoSent
  /\ ops = 0
  /\ remote = 0
  /\ eleInfo = NoInfo
  /\ viewSize = 0

\* a step of a run: the element is alive and the run has steps left
Called == pc = "run" /\ ops < MaxOps /\ ops' = ops + 1

\* --------------------------------------------------------------- setDomain
RECURSIVE BuildBasicDOFBySelection(_, _)
\* variant: the offset of a node grows by the size of the selection of the
\* node before it
BuildBasicDOFBySelection(i, ndf) ==
  IF i > numExternalNodes THEN <<>>
  ELSE [j \in 1..Len(cfg.dof[i]) |-> ndf + cfg.dof[i][j]]
         \o BuildBasicDOFBySelection(i + 1, ndf + Len(cfg.dof[i]))

RECURSIVE BuildBasicDOF(_, _)
\* the loop that sets the basicDOF ID, from node i on with ndf DOFs before it
BuildBasicDOF(i, ndf) ==
  IF i > numExternalNodes THEN <<>>
  ELSE [j \in 1..Len(cfg.dof[i]) |-> ndf + cfg.dof[i][j]]
         \o BuildBasicDOF(i + 1, ndf + cfg.ndf[i])

\* setDomain(0): the element is removed from its domain
setDomainNull ==
  /\ Called
  /\ theNodes' = [i \in 1..numExternalNodes |-> FALSE]
  /\ wire' = <<>>
  /\ last' = Returned("setDomainNull", FALSE)
  /\ eleInfo' = NoInfo
  /\ UNCHANGED <<cfg, pc, theDomain, numDOF, numBasicDOF, basicDOF, dataSize,
                 theMatrix, theVector, theLoad, theInitStiff, theMass, theChannel,
                 sData, rData, dbCtrl, vbCtrl, abCtrl, initStiffFlag, massFlag,
                 trial, sent, remote, viewSize>>

\* setDomain(d) where d lacks node m: the warning is printed and the method
\* returns with the node pointers as far as they were found
setDomainMissing ==
  \E m \in 1..numExternalNodes :
    /\ Called
    /\ theNodes' = [i \in 1..numExternalNodes |-> i # m]
    /\ wire' = <<>>
    /\ last' = Returned("setDomainMissing", FALSE)
    /\ eleInfo' = NoInfo
    /\ UNCHANGED <<cfg, pc, theDomain, numDOF, numBasicDOF, basicDOF, dataSize,
                   theMatrix, theVector, theLoad, theInitStiff, theMass, theChannel,
                   sData, rData, dbCtrl, vbCtrl, abCtrl, initStiffFlag, massFlag,
                   trial, sent, remote, viewSize>>

\* setDomain(d) where d holds every node
setDomain ==
  /\ Called
  /\ theNodes' = [i \in 1..numExternalNodes |-> TRUE]
  /\ numDOF' = SumSeq(cfg.ndf)
  /\ basicDOF' = BuildBasicDOF(1, 0)
  /\ theMatrix' = ZeroMatrix(numDOF')
  /\ theVector' = ZeroVector(numDOF')
  /\ theLoad' = ZeroVector(numDOF')
  /\ theInitStiff' = ZeroMatrix(numDOF')
  /\ theMass' = ZeroMatrix(numDOF')
  /\ theDomain' = TRUE
  /\ wire' = <<>>
  /\ last' = Returned("setDomain", FALSE)
  /\ eleInfo' = NoInfo
  /\ UNCHANGED <<cfg, pc, numBasicDOF, dataSize, theChannel, sData, rData,
                 dbCtrl, vbCtrl, abCtrl, initStiffFlag, massFlag, trial, sent, remote, viewSize>>

\* the domain moves to another trial state and time
DomainStep ==
  /\ Called
  /\ \E s \in Trials \ {trial} : trial' = s
  /\ wire' = <<>>
  /\ last' = Returned("domainStep", FALSE)
  /\ eleInfo' = NoInfo
  /\ UNCHANGED <<cfg, pc, theNodes, theDomain, numDOF, numBasicDOF, basicDOF,
                 dataSize, theMatrix, theVector, theLoad, theInitStiff, theMass,
                 theChannel, sData, rData, dbCtrl, vbCtrl, abCtrl, initStiffFlag,
                 massFlag, sent, remote, viewSize>>

\* --------------------------------------------------------- setupConnection
SetupOutcomes == {"newFail", "setUpFail", "ok", "sendIDFail"}

\* the sizing message idData
SizeMessage(ds) ==
  <<numBasicDOF, numBasicDOF, numBasicDOF, 0, 1, 0, 0, 0, numBasicDOF, 0, ds>>

\* variant: dataSize raised by the first if statement only
RaisedDataSizeLinear(ds) ==
  IF ds < 1 + 3*numBasicDOF + 1 THEN 1 + 3*numBasicDOF + 1 ELSE ds

\* dataSize as the two if statements leave it
RaisedDataSize(ds) ==
  LET d1 == IF ds < 1 + 3*numBasicDOF + 1 THEN 1 + 3*numBasicDOF + 1 ELSE ds
  IN IF d1 < numBasicDOF * numBasicDOF THEN numBasicDOF * numBasicDOF ELSE d1

\* setupConnection(): its return value and the fields it leaves
setupConnection(o) ==
  IF o = "newFail"
    THEN [rv |-> -1, theChannel |-> "null", dataSize |-> dataSize,
          sData |-> sData, rData |-> rData, viewSize |-> viewSize, ev |-> <<>>]
  ELSE IF o = "setUpFail"
    THEN [rv |-> -2, theChannel |-> "unconnected", dataSize |-> dataSize,
          sData |-> sData, rData |-> rData, viewSize |-> viewSize,
          ev |-> <<[kind |-> "open", data |-> <<>>, ok |-> FALSE]>>]
  ELSE LET ds == RaisedDataSize(dataSize)
       IN [rv |-> 0, theChannel |-> "up", dataSize |-> ds,
           sData |-> ZeroVector(ds), rData |-> ZeroVector(ds),
           viewSize |-> numBasicDOF,
           ev |-> <<[kind |-> "open", data |-> <<>>, ok |-> TRUE],
                    [kind |-> "handshake", data |-> SizeMessage(ds),
                     ok |-> o = "ok"]>>]

\* ------------------------------------------------------------------ update
\* the trial response of the selected DOFs of all nodes, assembled in node
\* order from basic position 0 on
RECURSIVE AssembleTrial(_, _, _)
AssembleTrial(v, i, resp) ==
  IF i > numExternalNodes THEN v
  ELSE AssembleTrial(
         VectorAssembleAt(v, VectorSelect(resp[i], cfg.dof[i]),
                          SumSeq([n \in 1..(i-1) |-> Len(cfg.dof[n])])),
         i + 1, resp)

\* variant: the view keeps what the update before left in it
KeptView(sd, off, n) == VectorView(sd, off, n)

\* db->Zero(): the view of n entries of sd from C index off, zeroed
ZeroedView(sd, off, n) == ZeroVector(n)

\* sData with time written through t, then d, v, a through db, vb and ab,
\* views of n entries each
WriteTrial(sd, n, d, v, a, time) ==
  <<sd[1]>> \o SubSeq(d, 1, n) \o SubSeq(v, 1, n) \o SubSeq(a, 1, n) \o <<time>>
    \o SubSeq(sd, 3 + 3*n, Len(sd))

\* variant: update() sets the connection up on every call
NeedsSetupAlways == TRUE

\* if (theChannel == 0): update() sets the connection up
NeedsSetup == theChannel = "null"

update ==
  \E o \in SetupOutcomes, io \in SendIOs :
    LET setup == NeedsSetup
        sc == IF setup THEN setupConnection(o)
              ELSE [rv |-> 0, theChannel |-> theChannel, dataSize |-> dataSize,
                    sData |-> sData, rData |-> rData, viewSize |-> viewSize,
                    ev |-> <<>>]
        n == sc.viewSize
        sd == SetCommand(
                WriteTrial(sc.sData, n,
                  AssembleTrial(ZeroedView(sc.sData, 1, n), 1,
                                [i \in 1..numExternalNodes |-> TrialDisp(trial, i)]),
                  AssembleTrial(ZeroedView(sc.sData, 1 + n, n), 1,
                                [i \in 1..numExternalNodes |-> TrialVel(trial, i)]),
                  AssembleTrial(ZeroedView(sc.sData, 1 + 2*n, n), 1,
                                [i \in 1..numExternalNodes |-> TrialAccel(trial, i)]),
                  trial),
                RemoteTest_setTrialResponse)
    IN /\ Called
       /\ setup \/ o = "ok"
       /\ theChannel' = sc.theChannel
       /\ dataSize' = sc.dataSize
       /\ rData' = sc.rData
       /\ viewSize' = sc.viewSize
       /\ IF sc.rv # 0
            THEN \* failed to setup connection: return -1
                 /\ io = "ok"
                 /\ pc' = pc /\ sData' = sc.sData /\ wire' = sc.ev
                 /\ last' = Returned("update", TRUE)
          ELSE IF sc.sData = <<>> \/ ~theDomain \/ \E i \in 1..numExternalNodes : ~theNodes[i]
            THEN \* (*t)(0), theDomain->getCurrentTime() or theNodes[i]->getTrialDisp()
                 \* goes through a null pointer
                 /\ io = "ok"
                 /\ pc' = "crashed" /\ sData' = sc.sData /\ wire' = sc.ev
                 /\ last' = Returned("update", FALSE)
          ELSE /\ pc' = pc /\ sData' = sd
               /\ wire' = sc.ev \o SendVector(sData', io).ev
               /\ last' = Returned("update", SendVector(sData', io).rv # 0)
       /\ remote' = IF pc' = "run" /\ ~last'.failed THEN trial ELSE remote
       /\ sent' = Tally(wire')
       /\ eleInfo' = NoInfo
       /\ UNCHANGED <<cfg, theNodes, theDomain, numDOF, numBasicDOF, basicDOF,
                      theMatrix, theVector, theLoad, theInitStiff, theMass,
                      dbCtrl, vbCtrl, abCtrl, initStiffFlag, massFlag, trial>>

\* ----------------------------------------------------------------- getters
\* The part of the element the getters work on, as a record, so that a getter
\* calling another (getResistingForceIncInertia, Print, getResponse) is the
\* composition of the two.  ev collects what the call puts on the channel;
\* crashed is set when a statement goes through a null pointer.
Element ==
  [theMatrix |-> theMatrix, theVector |-> theVector, theLoad |-> theLoad,
   theInitStiff |-> theInitStiff, theMass |-> theMass, sData |-> sData,
   rData |-> rData, dbCtrl |-> dbCtrl, vbCtrl |-> vbCtrl, abCtrl |-> abCtrl,
   initStiffFlag |-> initStiffFlag, massFlag |-> massFlag,
   ev |-> <<>>, crashed |-> FALSE]

Crash(e) == [e EXCEPT !.crashed = TRUE]

\* variant: the command is sent and no reply is read
QueryNoRecv(e, code, io) ==
  LET sd == SetCommand(e.sData, code)
  IN [e EXCEPT !.sData = sd, !.ev = e.ev \o SendVector(sd, io).ev]

\* sData[0] = code; sendVector; recvVector, on an element whose buffers exist
Query(e, code, io) ==
  LET sd == SetCommand(e.sData, code)
      r == RecvVector(e.rData, code, io)
  IN [e EXCEPT !.sData = sd, !.rData = r.rd,
               !.ev = e.ev \o SendVector(sd, io).ev \o r.ev]

ZeroOf(M) == [p \in DOMAIN M |-> 0]

\* variant: the tangent is fetched once and kept, as the initial stiffness is
getTangentStiffCached(e, io) ==
  IF e.crashed \/ e.initStiffFlag THEN e
  ELSE IF e.rData = <<>> THEN Crash([e EXCEPT !.theMatrix = ZeroOf(e.theMatrix)])
  ELSE LET q == Query([e EXCEPT !.rData = ZeroRMatrix(e.rData)],
                      RemoteTest_getTangentStiff, io)
       IN [q EXCEPT !.theMatrix =
             MatrixAssemble(ZeroOf(e.theMatrix), rMatrix(q.rData), basicDOF, basicDOF),
                    !.initStiffFlag = TRUE]

getTangentStiff(e, io) ==
  IF e.crashed THEN e
  ELSE IF e.rData = <<>> THEN Crash([e EXCEPT !.theMatrix = ZeroOf(e.theMatrix)])
  ELSE LET q == Query([e EXCEPT !.rData = ZeroRMatrix(e.rData)],
                      RemoteTest_getTangentStiff, io)
       IN [q EXCEPT !.theMatrix =
             MatrixAssemble(ZeroOf(e.theMatrix), rMatrix(q.rData), basicDOF, basicDOF)]

\* variant: initStiffFlag is never set
getInitialStiffNoLatch(e, io) ==
  IF e.crashed \/ e.initStiffFlag THEN e
  ELSE IF e.rData = <<>> THEN Crash([e EXCEPT !.theInitStiff = ZeroOf(e.theInitStiff)])
  ELSE LET q == Query([e EXCEPT !.rData = ZeroRMatrix(e.rData)],
                      RemoteTest_getInitialStiff, io)
       IN [q EXCEPT !.theInitStiff =
             MatrixAssemble(ZeroOf(e.theInitStiff), rMatrix(q.rData), basicDOF, basicDOF)]

getInitialStiff(e, io) ==
  IF e.crashed \/ e.initStiffFlag THEN e
  ELSE IF e.rData = <<>> THEN Crash([e EXCEPT !.theInitStiff = ZeroOf(e.theInitStiff)])
  ELSE LET q == Query([e EXCEPT !.rData = ZeroRMatrix(e.rData)],
                      RemoteTest_getInitialStiff, io)
       IN [q EXCEPT !.theInitStiff =
             MatrixAssemble(ZeroOf(e.theInitStiff), rMatrix(q.rData), basicDOF, basicDOF),
                    !.initStiffFlag = TRUE]

\* variant: theMatrix is not zeroed before the reply is assembled into it
getDampKeepsMatrix(e, io) ==
  IF e.crashed THEN e
  ELSE IF e.rData = <<>> THEN Crash(e)
  ELSE LET base == IF cfg.ray = 1 THEN RayleighDamp(numDOF) ELSE e.theMatrix
           q == Query([e EXCEPT !.rData = ZeroRMatrix(e.rData)],
                      RemoteTest_getDamp, io)
       IN [q EXCEPT !.theMatrix =
             MatrixAssemble(base, rMatrix(q.rData), basicDOF, basicDOF)]

getDamp(e, io) ==
  IF e.crashed THEN e
  ELSE IF e.rData = <<>> THEN Crash([e EXCEPT !.theMatrix = ZeroOf(e.theMatrix)])
  ELSE LET base == IF cfg.ray = 1 THEN RayleighDamp(numDOF) ELSE ZeroOf(e.theMatrix)
           q == Query([e EXCEPT !.rData = ZeroRMatrix(e.rData)],
                      RemoteTest_getDamp, io)
       IN [q EXCEPT !.theMatrix =
             MatrixAssemble(base, rMatrix(q.rData), basicDOF, basicDOF)]

getMass(e, io) ==
  IF e.crashed \/ e.massFlag THEN e
  ELSE IF e.rData = <<>> THEN Crash([e EXCEPT !.theMass = ZeroOf(e.theMass)])
  ELSE LET q == Query([e EXCEPT !.rData = ZeroRMatrix(e.rData)],
                      RemoteTest_getMass, io)
       IN [q EXCEPT !.theMass =
             MatrixAssemble(ZeroOf(e.theMass), rMatrix(q.rData), basicDOF, basicDOF),
                    !.massFlag = TRUE]

\* variant: the ctrl vectors are not saved
getResistingForceNoCtrl(e, io) ==
  IF e.crashed THEN e
  ELSE IF e.sData = <<>> THEN Crash([e EXCEPT !.theVector = ZeroVector(Len(e.theVector))])
  ELSE LET q == Query(e, RemoteTest_getForce, io)
       IN [q EXCEPT !.theVector = VectorAssembleID(ZeroVector(Len(e.theVector)),
                                                   qDaq(q.rData), basicDOF)]

getResistingForce(e, io) ==
  IF e.crashed THEN e
  ELSE IF e.sData = <<>> THEN Crash([e EXCEPT !.theVector = ZeroVector(Len(e.theVector))])
  ELSE LET q == Query(e, RemoteTest_getForce, io)
       IN [q EXCEPT !.dbCtrl = db(q.sData), !.vbCtrl = vb(q.sData),
                    !.abCtrl = ab(q.sData),
                    !.theVector = VectorAssembleID(ZeroVector(Len(e.theVector)),
                                                   qDaq(q.rData), basicDOF)]

\* theNodes[i]->getRV(accel): the ground acceleration at the DOFs of node i
NodeRV(i) == [j \in 1..cfg.ndf[i] |-> 10*i + j]

\* the trial response of all DOFs of all nodes, assembled in node order
FullTrial(resp) ==
  [k \in 1..numDOF |->
     SumSeq([i \in 1..numExternalNodes |->
        LET off == SumTo(cfg.ndf, i - 1)
        IN IF k > off /\ k <= off + cfg.ndf[i] THEN resp[i][k - off] ELSE 0])]

getResistingForceIncInertia(e, io1, io2, io3) ==
  LET f == getResistingForce(e, io1)
      g == IF f.crashed THEN f
           ELSE [f EXCEPT !.theVector = AddVector(f.theVector, f.theLoad, -1)]
      m == IF g.massFlag = FALSE THEN getMass(g, io2) ELSE g
      c == getDamp(m, io3)
  IN IF c.crashed THEN c
     ELSE IF \E i \in 1..numExternalNodes : ~theNodes[i] THEN Crash(c)
     ELSE [c EXCEPT !.theVector =
             AddMatrixVector(
               AddMatrixVector(c.theVector, c.theMatrix,
                  FullTrial([i \in 1..numExternalNodes |-> TrialVel(trial, i)]), 1),
               c.theMass,
               FullTrial([i \in 1..numExternalNodes |-> TrialAccel(trial, i)]), 1)]

\* commitState(): its return value is in rv
commitState(e, io) ==
  IF e.sData = <<>> THEN [e |-> Crash(e), rv |-> 0]
  ELSE LET sd == SetCommand(e.sData, RemoteTest_commitState)
           s == SendVector(sd, io)
       IN [e |-> [e EXCEPT !.sData = sd, !.ev = e.ev \o s.ev], rv |-> s.rv + 0]

\* the element after a call that left it as e, handed info to its caller's
\* Information and returned
LeavesWith(e, op, failed, info) ==
  /\ Called
  /\ eleInfo' = info
  /\ pc' = IF e.crashed THEN "crashed" ELSE "run"
  /\ theMatrix' = e.theMatrix
  /\ theVector' = e.theVector
  /\ theLoad' = e.theLoad
  /\ theInitStiff' = e.theInitStiff
  /\ theMass' = e.theMass
  /\ sData' = e.sData
  /\ rData' = e.rData
  /\ dbCtrl' = e.dbCtrl
  /\ vbCtrl' = e.vbCtrl
  /\ abCtrl' = e.abCtrl
  /\ initStiffFlag' = e.initStiffFlag
  /\ massFlag' = e.massFlag
  /\ wire' = e.ev
  /\ sent' = Tally(e.ev)
  /\ last' = Returned(op, failed)
  /\ UNCHANGED <<cfg, theNodes, theDomain, numDOF, numBasicDOF, basicDOF,
                 dataSize, theChannel, trial, remote, viewSize>>

\* the element after a call that left it as e and returned to its caller
Leaves(e, op, failed) == LeavesWith(e, op, failed, NoInfo)

\* the inputs of a call that makes n round trips: one outcome each while the
\* buffers exist, none to choose when the call stops at a null pointer
OneIO == {"ok"}

QueryIOs == IF rData = <<>> THEN OneIO ELSE IOs

CallGetTangentStiff ==
  \E io \in QueryIOs : Leaves(getTangentStiff(Element, io), "getTangentStiff", FALSE)

CallGetInitialStiff ==
  \E io \in IF initStiffFlag THEN OneIO ELSE QueryIOs :
    Leaves(getInitialStiff(Element, io), "getInitialStiff", FALSE)

CallGetDamp ==
  \E io \in QueryIOs : Leaves(getDamp(Element, io), "getDamp", FALSE)

CallGetMass ==
  \E io \in IF massFlag THEN OneIO ELSE QueryIOs :
    Leaves(getMass(Element, io), "getMass", FALSE)

CallGetResistingForce ==
  \E io \in QueryIOs :
    Leaves(getResistingForce(Element, io), "getResistingForce", FALSE)

CallGetResistingForceIncInertia ==
  \E io1 \in QueryIOs, io2 \in IF massFlag THEN OneIO ELSE QueryIOs, io3 \in QueryIOs :
    Leaves(getResistingForceIncInertia(Element, io1, io2, io3),
           "getResistingForceIncInertia", FALSE)

CallCommitState ==
  \E io \in IF sData = <<>> THEN OneIO ELSE SendIOs :
    LET c == commitState(Element, io)
    IN Leaves(c.e, "commitState", c.rv # 0)

\* revertToLastCommit() and revertToStart(): return -1
revertToLastCommit == Leaves(Element, "revertToLastCommit", TRUE)

\* variant: revertToStart() forgets the cached matrices and returns 0
revertToStartClearsCaches ==
  Leaves([Element EXCEPT !.initStiffFlag = FALSE, !.massFlag = FALSE],
         "revertToStart", TRUE)

revertToStart == Leaves(Element, "revertToStart", TRUE)

\* addLoad(theLoad, loadFactor): return -1
addLoad == Leaves(Element, "addLoad", TRUE)

\* zeroLoad()
zeroLoad ==
  Leaves([Element EXCEPT !.theLoad = ZeroVector(Len(theLoad))], "zeroLoad", FALSE)

\* variant: the mass is fetched again on every call
addInertiaLoadRefetch(e, io) ==
  LET m == getMass([e EXCEPT !.massFlag = FALSE], io)
  IN IF m.crashed THEN m
     ELSE IF \E i \in 1..numExternalNodes : ~theNodes[i] THEN Crash(m)
     ELSE [m EXCEPT !.theLoad =
             AddMatrixVector(m.theLoad, m.theMass,
                FullTrial([i \in 1..numExternalNodes |-> NodeRV(i)]), -1)]

\* addInertiaLoadToUnbalance(accel): the mass through the cache, then
\* theLoad -= theMass * Raccel
addInertiaLoadToUnbalance(e, io) ==
  LET m == IF e.massFlag = FALSE THEN getMass(e, io) ELSE e
  IN IF m.crashed THEN m
     ELSE IF \E i \in 1..numExternalNodes : ~theNodes[i] THEN Crash(m)
     ELSE [m EXCEPT !.theLoad =
             AddMatrixVector(m.theLoad, m.theMass,
                FullTrial([i \in 1..numExternalNodes |-> NodeRV(i)]), -1)]

CallAddInertiaLoadToUnbalance ==
  \E io \in IF massFlag THEN OneIO ELSE QueryIOs :
    Leaves(addInertiaLoadToUnbalance(Element, io), "addInertiaLoadToUnbalance", FALSE)

\* the response ids of the switch in getResponse, and one it does not know
ResponseIDs == 1..7

\* getResponse(responseID, eleInfo): the element it leaves, the vector it
\* hands to eleInfo and its return value
getResponse(e, id, io) ==
  IF id \in {1, 2}
    THEN LET f == getResistingForce(e, io)
         IN [e |-> f, info |-> IF f.crashed THEN <<>> ELSE f.theVector, rv |-> 0]
  ELSE IF id = 3
    THEN IF e.rData = <<>> THEN [e |-> Crash(e), info |-> <<>>, rv |-> 0]
         ELSE [e |-> e, info |-> qDaq(e.rData), rv |-> 0]
  ELSE IF id = 4 THEN [e |-> e, info |-> e.dbCtrl, rv |-> 0]
  ELSE IF id = 5 THEN [e |-> e, info |-> e.vbCtrl, rv |-> 0]
  ELSE IF id = 6 THEN [e |-> e, info |-> e.abCtrl, rv |-> 0]
  ELSE [e |-> e, info |-> <<>>, rv |-> 0 - 1]

CallGetResponse ==
  \E id \in ResponseIDs, io \in QueryIOs :
    LET g == getResponse(Element, id, io)
    IN /\ id \in {1, 2} \/ io = "ok"
       /\ LeavesWith(g.e, "getResponse", g.rv # 0,
                     IF g.e.crashed THEN NoInfo ELSE [id |-> id, data |-> g.info])

\* GenericClient::Print with flag: flag 0 prints the resisting force, flag 1 nothing
PrintFlag(e, flag, io) == IF flag = 0 THEN getResistingForce(e, io) ELSE e

CallPrint ==
  \E flag \in {0, 1}, io \in QueryIOs :
    /\ flag = 0 \/ io = "ok"
    /\ Leaves(PrintFlag(Element, flag, io), "Print", FALSE)

\* sendSelf(commitTag, sChannel): the parameters go out on sChannel, which is
\* not the element's channel; return 0
sendSelf == Leaves(Element, "sendSelf", FALSE)

\* recvSelf(commitTag, rChannel, theBroker), with rChannel handing over the
\* parameters that the sendSelf of an element with configuration c wrote.
\* theDOF[i] is received into an ID that new ID [numExternalNodes] made: it
\* arrives with the sender's entries, or stays without entries, as the
\* ID and Channel classes outside this file decide.
recvSelf ==
  \E c \in ProtocolConfigs, arrives \in BOOLEAN :
    LET dof == IF arrives THEN c.dof ELSE [i \in 1..Len(c.ndf) |-> <<>>]
        n == SumSeq([i \in 1..Len(dof) |-> Len(dof[i])])
    IN /\ Called
       /\ cfg' = [c EXCEPT !.dof = dof]
       /\ dataSize' = c.req
       /\ theNodes' = [i \in 1..Len(c.ndf) |-> FALSE]
       /\ numBasicDOF' = n
       /\ basicDOF' = ZeroVector(n)
       /\ dbCtrl' = ZeroVector(n)
       /\ vbCtrl' = ZeroVector(n)
       /\ abCtrl' = ZeroVector(n)
       /\ wire' = <<>>
       /\ last' = Returned("recvSelf", FALSE)
       /\ eleInfo' = NoInfo
       /\ UNCHANGED <<pc, theDomain, numDOF, theMatrix, theVector, theLoad,
                      theInitStiff, theMass, theChannel, sData, rData, viewSize,
                      initStiffFlag, massFlag, trial, sent, remote>>

\* ~GenericClient()
destructor ==
  \E io \in IF theChannel = "up" THEN SendIOs ELSE OneIO :
    /\ Called
    /\ IF theChannel = "null"
         THEN pc' = "destroyed" /\ wire' = <<>> /\ UNCHANGED <<theChannel, sData>>
       ELSE IF sData = <<>>
         THEN \* sData[0] = RemoteTest_DIE through a null pointer
              pc' = "crashed" /\ wire' = <<>> /\ UNCHANGED <<theChannel, sData>>
       ELSE /\ pc' = "destroyed"
            /\ sData' = SetCommand(sData, RemoteTest_DIE)
            /\ wire' = SendVector(sData', io).ev
                         \o <<[kind |-> "close", data |-> <<>>, ok |-> TRUE]>>
            /\ theChannel' = "deleted"
    /\ sent' = Tally(wire')
    /\ last' = Returned("destructor", FALSE)
    /\ eleInfo' = NoInfo
    /\ UNCHANGED <<cfg, theNodes, theDomain, numDOF, numBasicDOF, basicDOF,
                   dataSize, theMatrix, theVector, theLoad, theInitStiff, theMass,
                   rData, dbCtrl, vbCtrl, abCtrl, initStiffFlag, massFlag, trial,
                   remote, viewSize>>

Init == InitWith(ProtocolConfigs)

InitMap == InitWith(AllConfigs)

Next ==
  \/ setDomainNull
  \/ setDomainMissing
  \/ setDomain
  \/ DomainStep
  \/ update
  \/ CallGetTangentStiff
  \/ CallGetInitialStiff
  \/ CallGetDamp
  \/ CallGetMass
  \/ CallGetResistingForce
  \/ CallGetResistingForceIncInertia
  \/ CallCommitState
  \/ revertToLastCommit
  \/ revertToStart
  \/ addLoad
  \/ zeroLoad
  \/ CallAddInertiaLoadToUnbalance
  \/ CallGetResponse
  \/ CallPrint
  \/ destructor

Spec == Init /\ [][Next]_vars

\* attachment and connection setup over every configuration
NextMap ==
  \/ setDomain
  \/ update

SpecMap == InitMap /\ [][NextMap]_vars

\* the element with its parameters sent and received as well
NextSelf ==
  \/ Next
  \/ sendSelf
  \/ recvSelf

SpecSelf == Init /\ [][NextSelf]_vars

\* every selection on nodes of MaxNdf DOFs each with the data size left to the
\* element, attached and updated while the domain moves on
TrialConfigs ==
  {c \in AllConfigs : c.req = 0 /\ \A i \in 1..Len(c.ndf) : c.ndf[i] = MaxNdf}

InitTrial == InitWith(TrialConfigs)

NextTrial ==
  \/ setDomain
  \/ DomainStep
  \/ update

SpecTrial == InitTrial /\ [][NextTrial]_vars

\* ------------------------------------------------------------ properties
Sends(evs) == {k \in 1..Len(evs) : evs[k].kind = "send"}

IOFailed(evs) == \E k \in 1..Len(evs) : ~evs[k].ok

Getters ==
  {"getTangentStiff", "getInitialStiff", "getDamp", "getMass", "getResistingForce"}

\* C1: when the send or the receive of a getter's round trip fails, the
\* container the getter returns is as it was before the call, and the caller
\* is handed a failure status.
C1_FailedGetterKeepsContainer ==
  [][(last'.op \in Getters /\ ops' = ops + 1 /\ IOFailed(wire'))
       => /\ last'.failed
          /\ last'.op \in {"getTangentStiff", "getDamp"} => theMatrix' = theMatrix
          /\ last'.op = "getInitialStiff" => theInitStiff' = theInitStiff
          /\ last'.op = "getMass" => theMass' = theMass
          /\ last'.op = "getResistingForce" => theVector' = theVector]_vars

\* C2: GET_INITIAL_STIFF and GET_MASS are each sent at most once in the life
\* of the element; after a getInitialStiff (getMass) call the flag is true;
\* a getInitialStiff (getMass) call that follows one on a connected element
\* puts nothing on the channel and returns the matrix the first returned.
C2_CacheLaw ==
  /\ [](/\ sent.initStiff <= 1 /\ sent.mass <= 1
        /\ (last.op = "getInitialStiff" /\ pc = "run") => initStiffFlag
        /\ (last.op = "getMass" /\ pc = "run") => massFlag)
  /\ [][/\ (last.op = "getInitialStiff" /\ last'.op = "getInitialStiff"
            /\ ops' = ops + 1 /\ theChannel = "up")
           => (wire' = <<>> /\ theInitStiff' = theInitStiff /\ sent'.initStiff = 1)
        /\ (last.op = "getMass" /\ last'.op = "getMass"
            /\ ops' = ops + 1 /\ theChannel = "up")
           => (wire' = <<>> /\ theMass' = theMass /\ sent'.mass = 1)]_vars

\* a second getInitialStiff call has been served from the cache
C2_Witness ==
  /\ last.op = "getInitialStiff" /\ wire = <<>> /\ pc = "run"
  /\ initStiffFlag /\ sent.initStiff = 1
  /\ theInitStiff # ZeroOf(theInitStiff)

CommandOf(op) ==
  IF op = "getTangentStiff" THEN RemoteTest_getTangentStiff
  ELSE IF op = "getDamp" THEN RemoteTest_getDamp
  ELSE RemoteTest_getForce

\* C3: every getTangentStiff, getDamp or getResistingForce call on a
\* connected element puts exactly its own command and then one receive on
\* the channel, whatever came before.
C3_NoCacheLaw ==
  (last.op \in {"getTangentStiff", "getDamp", "getResistingForce"} /\ pc = "run")
    => /\ Len(wire) = 2
       /\ wire[1].kind = "send" /\ wire[1].data[1] = CommandOf(last.op)
       /\ wire[2].kind = "recv"

\* a getDamp call late in a run made its round trip
C3_Witness ==
  /\ last.op = "getDamp" /\ pc = "run" /\ ops = MaxOps
  /\ Len(wire) = 2 /\ wire[1].data[1] = RemoteTest_getDamp /\ wire[2].ok
  /\ theMatrix # ZeroOf(theMatrix)


Kinds(evs, kinds) == {k \in 1..Len(evs) : evs[k].kind \in kinds}

\* C4: a channel is opened and the sizing message sent by update() only, each
\* at most once in the life of the element; construction and setDomain leave
\* the channel null and the wire empty; an update that returns success leaves
\* the channel open; nothing is sent or received before the sizing message.
C4_LazyConnection ==
  /\ sent.channels <= 1 /\ sent.handshakes <= 1
  /\ sent.handshakes <= sent.channels
  /\ Kinds(wire, {"open", "handshake"}) # {} => last.op = "update"
  /\ last.op \in {"construct", "setDomain", "setDomainNull", "setDomainMissing"}
       => wire = <<>>
  /\ sent.channels = 0 => theChannel = "null"
  /\ (last.op = "update" /\ pc = "run" /\ ~last.failed) => theChannel = "up"
  /\ \A k \in Kinds(wire, {"send", "recv"}) :
       /\ sent.handshakes = 1
       /\ \A j \in Kinds(wire, {"open", "handshake"}) : j < k
  /\ \A k \in Kinds(wire, {"handshake"}) : k = 2 /\ wire[1].kind = "open"

\* a second update ran on the channel the first one opened
C4_Witness ==
  /\ last.op = "update" /\ pc = "run" /\ ops >= 3
  /\ Kinds(wire, {"open", "handshake"}) = {} /\ Len(wire) = 1
  /\ sent.channels = 1 /\ sent.handshakes = 1

\* C5: once connection setup has failed the element stays unusable: no later
\* operation goes through the unallocated buffers, sends a command or sets
\* the connection up again, and every later update reports failure.
C5_FailedSetupStaysInert ==
  theChannel = "unconnected"
    => /\ pc # "crashed"
       /\ Kinds(wire, {"send", "recv", "handshake"}) = {}
       /\ last.op = "update" => last.failed

\* C6: the destructor of an element that never connected puts nothing on the
\* channel and ends without error; the destructor of a connected element sends
\* TERMINATE once, reads no reply and then releases the channel.
C6_Teardown ==
  last.op = "destructor"
    => /\ pc = "destroyed"
       /\ theChannel \in {"null", "unconnected"} => wire = <<>>
       /\ theChannel = "deleted"
            => /\ Len(wire) = 2 /\ sent.die = 1
               /\ wire[1].kind = "send" /\ wire[1].data[1] = RemoteTest_DIE
               /\ wire[2].kind = "close"

IsQuery(ev) == ev.kind = "send" /\ ev.data[1] \in QueryCommands

\* C7: in what every operation puts on the channel, each query command is
\* followed at once by one receive, a receive follows nothing but a query
\* command, and SET_TRIAL_RESPONSE, COMMIT_STATE and TERMINATE are followed
\* by no receive.  An operation's events never start with a receive and never
\* end with a query still open, so the order holds across operations too.
C7_StrictOrder ==
  \A k \in 1..Len(wire) :
    /\ IsQuery(wire[k]) => (k < Len(wire) /\ wire[k+1].kind = "recv")
    /\ wire[k].kind = "recv" => (k > 1 /\ IsQuery(wire[k-1]))
    /\ (wire[k].kind = "send" /\ ~IsQuery(wire[k]))
         => /\ wire[k].data[1] \in {RemoteTest_setTrialResponse,
                                    RemoteTest_commitState, RemoteTest_DIE}
            /\ (k = Len(wire) \/ wire[k+1].kind # "recv")

\* getResistingForceIncInertia made its three round trips
C7_Witness ==
  /\ last.op = "getResistingForceIncInertia" /\ pc = "run"
  /\ Len(wire) = 6
  /\ wire[1].data[1] = RemoteTest_getForce
  /\ wire[3].data[1] = RemoteTest_getMass
  /\ wire[5].data[1] = RemoteTest_getDamp

CodeOnlyCommands == QueryCommands \cup {RemoteTest_commitState, RemoteTest_DIE}

\* C8 as claimed: a query command, COMMIT_STATE or TERMINATE goes out as the
\* command code alone.
C8_CodeOnlyPayload ==
  \A k \in Sends(wire) :
    wire[k].data[1] \in CodeOnlyCommands => Len(wire[k].data) = 1

\* C8 as amended: a query command, COMMIT_STATE or TERMINATE goes out as the
\* whole transmit buffer of dataSize entries, entry 0 the command code and the
\* other entries what the buffer holds in its db, vb, ab and t slots.
C8_WholeBufferPayload ==
  \A k \in Sends(wire) :
    wire[k].data[1] \in CodeOnlyCommands
      => /\ Len(wire[k].data) = dataSize
         /\ wire[k].data = [sData EXCEPT ![1] = wire[k].data[1]]

\* GET_FORCE went out with the displacement of the last update behind it
C8_Witness ==
  \E k \in Sends(wire) :
    /\ wire[k].data[1] = RemoteTest_getForce
    /\ Len(wire[k].data) > 1
    /\ wire[k].data[2] # 0

\* entries of the selections of the nodes before node i
SelectedBefore(i) == SumSeq([n \in 1..(i-1) |-> Len(cfg.dof[n])])

\* C9: after setDomain has found every node, basicDOF has numBasicDOF entries,
\* numBasicDOF is the sum of the sizes of the selections, the entry of the
\* j-th selected DOF of node i is the sum of the DOF counts of the nodes
\* before i plus the selected local index, and every entry is in [0, numDOF);
\* two nodes of 3 DOFs with selections {0,1} and {0} give [0,1,3].
C9_BasicDOFMap ==
  theDomain
    => /\ Len(basicDOF) = numBasicDOF
       /\ numBasicDOF = SelectedBefore(numExternalNodes + 1)
       /\ numDOF = SumSeq(cfg.ndf)
       /\ \A i \in 1..numExternalNodes : \A j \in 1..Len(cfg.dof[i]) :
            basicDOF[SelectedBefore(i) + j] = SumTo(cfg.ndf, i - 1) + cfg.dof[i][j]
       /\ \A k \in 1..Len(basicDOF) : basicDOF[k] >= 0 /\ basicDOF[k] < numDOF
       /\ (cfg.ndf = <<3, 3>> /\ cfg.dof = << <<0, 1>>, <<0>> >>)
            => basicDOF = <<0, 1, 3>>

\* setDomain ran on the two nodes of 3 DOFs with selections {0,1} and {0}
C9_Witness ==
  /\ theDomain /\ last.op = "setDomain"
  /\ cfg.ndf = <<3, 3>> /\ cfg.dof = << <<0, 1>>, <<0>> >>
  /\ basicDOF = <<0, 1, 3>>

\* C10: once the connection is set up, dataSize is the largest of the
\* requested size, 1+3*numBasicDOF+1 and numBasicDOF^2; it is not below the
\* requested size, the sizing message carries it, and sData and rData have
\* exactly dataSize entries.
C10_DataSize ==
  /\ theChannel = "up"
       => /\ dataSize = Max2(cfg.req, Max2(1 + 3*numBasicDOF + 1,
                                           numBasicDOF * numBasicDOF))
          /\ dataSize >= cfg.req
          /\ Len(sData) = dataSize /\ Len(rData) = dataSize
          /\ Len(rData) >= Max2(numBasicDOF, numBasicDOF * numBasicDOF)
  /\ \A k \in Kinds(wire, {"handshake"}) :
       wire[k].data[11] = dataSize /\ wire[k].data[1] = numBasicDOF

\* the connection was set up with the square of numBasicDOF as the size
C10_Witness ==
  /\ theChannel = "up" /\ last.op = "update"
  /\ Kinds(wire, {"handshake"}) # {}
  /\ dataSize = numBasicDOF * numBasicDOF
  /\ dataSize > 1 + 3*numBasicDOF + 1 /\ dataSize > cfg.req

\* a vector of n entries that no buffer holds
Marked(n) == [k \in 1..n |-> 0 - 1]

\* the views of a transmit buffer, in the order command code, db, vb, ab, t
Regions(sd) == <<sd[1], db(sd), vb(sd), ab(sd), t(sd)>>

\* C11: on a connected element with L = numBasicDOF, entry 0 of sData is the
\* command code, db is entries 1..L, vb entries L+1..2L, ab entries 2L+1..3L
\* and t entry 3L+1; all of them lie inside sData, and a write through one of
\* db, vb, ab, t changes that view alone: not the command code, not another
\* view.
C11_TransmitRegions ==
  theChannel = "up"
    => LET L == numBasicDOF
           r == Regions(sData)
           wdb == Regions(ViewWrite(sData, 1, Marked(L)))
           wvb == Regions(ViewWrite(sData, 1 + L, Marked(L)))
           wab == Regions(ViewWrite(sData, 1 + 2*L, Marked(L)))
           wt == Regions(ViewWrite(sData, 1 + 3*L, Marked(1)))
       IN /\ 3*L + 2 <= Len(sData)
          /\ db(sData) = [k \in 1..L |-> sData[1 + k]]
          /\ vb(sData) = [k \in 1..L |-> sData[1 + L + k]]
          /\ ab(sData) = [k \in 1..L |-> sData[1 + 2*L + k]]
          /\ t(sData) = <<sData[3*L + 2]>>
          /\ wdb = [r EXCEPT ![2] = Marked(L)]
          /\ wvb = [r EXCEPT ![3] = Marked(L)]
          /\ wab = [r EXCEPT ![4] = Marked(L)]
          /\ wt = [r EXCEPT ![5] = Marked(1)]

\* an update wrote a trial state of two or more basic DOFs into the regions
C11_Witness ==
  /\ theChannel = "up" /\ last.op = "update" /\ ~last.failed
  /\ numBasicDOF >= 2
  /\ sData[1] = RemoteTest_setTrialResponse
  /\ \A k \in 2..(3*numBasicDOF + 2) : sData[k] # 0

\* the operation called last made its round trips and none of them failed
Succeeded(op) == last.op = op /\ pc = "run" /\ wire # <<>> /\ ~IOFailed(wire)

\* entry (i,j) of the reply to a matrix command, entry i of the reply to
\* GET_FORCE (i, j from 0): the reply fills rData, which the element reads
\* as a matrix stored column by column
ReplyMatrix(code, i, j) == Reply(code, remote, j * numBasicDOF + i + 1)

ReplyVector(code, i) == Reply(code, remote, i + 1)

\* M holds reply (i,j) of code at (basicDOF[i], basicDOF[j]) and 0 elsewhere
ScatteredMatrix(M, code) ==
  /\ \A i, j \in 1..numBasicDOF :
       M[<<basicDOF[i], basicDOF[j]>>] = ReplyMatrix(code, i - 1, j - 1)
  /\ \A p \in DOMAIN M :
       (~\E i, j \in 1..numBasicDOF : p = <<basicDOF[i], basicDOF[j]>>) => M[p] = 0

\* C12: after getTangentStiff, a fetching getInitialStiff, a fetching getMass
\* or getResistingForce whose round trip succeeded, the container holds the
\* reply entry for entry at the basicDOF positions and zero everywhere else.
C12_ScatterFidelity ==
  /\ Succeeded("getTangentStiff")
       => ScatteredMatrix(theMatrix, RemoteTest_getTangentStiff)
  /\ Succeeded("getInitialStiff")
       => ScatteredMatrix(theInitStiff, RemoteTest_getInitialStiff)
  /\ Succeeded("getMass") => ScatteredMatrix(theMass, RemoteTest_getMass)
  /\ Succeeded("getResistingForce")
       => /\ \A i \in 1..numBasicDOF :
               theVector[basicDOF[i] + 1] = ReplyVector(RemoteTest_getForce, i - 1)
          /\ \A k \in 1..Len(theVector) :
               (~\E i \in 1..numBasicDOF : basicDOF[i] + 1 = k) => theVector[k] = 0

\* a tangent of two basic DOFs came back and sits at the basicDOF positions
\* of a container that has other positions too
C12_Witness ==
  /\ Succeeded("getTangentStiff")
  /\ numBasicDOF = 2 /\ numDOF > numBasicDOF
  /\ theMatrix[<<basicDOF[1], basicDOF[2]>>] # theMatrix[<<basicDOF[2], basicDOF[1]>>]
  /\ theMatrix[<<basicDOF[1], basicDOF[2]>>] # 0

\* C13: a setDomain that does not find every node returns without a crash and
\* leaves numDOF, basicDOF and the containers as they were, and the operation
\* called after it opens no channel, sends nothing and does not crash.
C13_FailedAttachStaysInert ==
  /\ [](last.op = "setDomainMissing" => pc = "run")
  /\ [][last'.op = "setDomainMissing"
          => /\ numDOF' = numDOF /\ basicDOF' = basicDOF
             /\ theMatrix' = theMatrix /\ theVector' = theVector
             /\ theLoad' = theLoad /\ theInitStiff' = theInitStiff
             /\ theMass' = theMass /\ wire' = <<>>]_vars
  /\ [][(last.op = "setDomainMissing" /\ last'.op # "setDomain")
          => /\ Kinds(wire', {"open", "handshake", "send", "recv"}) = {}
             /\ pc' # "crashed"]_vars

Unsupported == {"revertToLastCommit", "revertToStart", "addLoad"}

\* C14: every call of revertToLastCommit, revertToStart or addLoad returns a
\* failure status, puts nothing on the channel and leaves the flags, the load
\* vector, the buffers, the containers and the channel as they were.
C14_UnsupportedAlwaysFail ==
  [][(last'.op \in Unsupported /\ ops' = ops + 1)
       => /\ last'.failed /\ wire' = <<>> /\ pc' = "run" /\ sent' = sent
          /\ initStiffFlag' = initStiffFlag /\ massFlag' = massFlag
          /\ theLoad' = theLoad /\ sData' = sData /\ rData' = rData
          /\ theMatrix' = theMatrix /\ theVector' = theVector
          /\ theInitStiff' = theInitStiff /\ theMass' = theMass
          /\ theChannel' = theChannel /\ dataSize' = dataSize
          /\ dbCtrl' = dbCtrl /\ vbCtrl' = vbCtrl /\ abCtrl' = abCtrl]_vars

\* revertToStart failed on a connected element that holds a cached matrix
C14_Witness ==
  /\ last.op = "revertToStart" /\ last.failed /\ wire = <<>>
  /\ theChannel = "up" /\ initStiffFlag
  /\ theInitStiff # ZeroOf(theInitStiff)

\* getResponse hands out dbCtrl, vbCtrl, abCtrl under the ids 4, 5, 6
CtrlResponses ==
  /\ eleInfo.id = 4 => eleInfo.data = dbCtrl
  /\ eleInfo.id = 5 => eleInfo.data = vbCtrl
  /\ eleInfo.id = 6 => eleInfo.data = abCtrl

\* C15 as claimed: dbCtrl, vbCtrl, abCtrl (response ids 4, 5, 6) are the db,
\* vb, ab in effect at the most recent commitState; a call that is no
\* commitState leaves them alone.
C15_CtrlFollowsCommit ==
  /\ [][ops' = ops + 1
          => IF last'.op = "commitState" /\ pc' = "run"
               THEN /\ dbCtrl' = db(sData') /\ vbCtrl' = vb(sData')
                    /\ abCtrl' = ab(sData')
               ELSE UNCHANGED <<dbCtrl, vbCtrl, abCtrl>>]_vars
  /\ []CtrlResponses

\* C15 as amended: dbCtrl, vbCtrl, abCtrl (response ids 4, 5, 6) are the db,
\* vb, ab in the transmit buffer at the most recent call that sent GET_FORCE;
\* a call that sends no GET_FORCE, commitState included, leaves them alone.
C15_CtrlFollowsForce ==
  /\ [][ops' = ops + 1
          => IF Count(wire', RemoteTest_getForce) > 0
               THEN /\ dbCtrl' = db(sData') /\ vbCtrl' = vb(sData')
                    /\ abCtrl' = ab(sData')
               ELSE UNCHANGED <<dbCtrl, vbCtrl, abCtrl>>]_vars
  /\ []CtrlResponses

\* getResponse(4) handed out the displacement of the update before the last
\* GET_FORCE
C15_Witness ==
  /\ last.op = "getResponse" /\ pc = "run" /\ eleInfo.id = 4
  /\ theChannel = "up"
  /\ eleInfo.data = db(sData)
  /\ \A k \in 1..Len(eleInfo.data) : eleInfo.data[k] # 0
  /\ numBasicDOF >= 2

\* the command codes an operation sent, in the order it sent them
SentCommands(evs) ==
  LET sends == SelectSeq(evs, LAMBDA ev : ev.kind = "send")
  IN [k \in 1..Len(sends) |-> sends[k].data[1]]

InertiaOps == {"getResistingForceIncInertia", "addInertiaLoadToUnbalance"}

\* C16: on a connected element getResistingForceIncInertia and
\* addInertiaLoadToUnbalance send GET_MASS exactly when massFlag is false at
\* the call, and massFlag is true afterwards; GET_MASS is sent at most once in
\* a run; getResistingForceIncInertia sends GET_FORCE, then GET_MASS when the
\* mass is not cached, then GET_DAMP.
C16_MassThroughCache ==
  /\ [](sent.mass <= 1)
  /\ [][(last'.op \in InertiaOps /\ ops' = ops + 1 /\ theChannel = "up")
          => /\ Count(wire', RemoteTest_getMass) = (IF massFlag THEN 0 ELSE 1)
             /\ massFlag'
             /\ last'.op = "addInertiaLoadToUnbalance"
                  => SentCommands(wire') =
                       (IF massFlag THEN <<>> ELSE <<RemoteTest_getMass>>)
             /\ last'.op = "getResistingForceIncInertia"
                  => SentCommands(wire') =
                       (IF massFlag
                          THEN <<RemoteTest_getForce, RemoteTest_getDamp>>
                          ELSE <<RemoteTest_getForce, RemoteTest_getMass,
                                 RemoteTest_getDamp>>)]_vars

\* addInertiaLoadToUnbalance used the mass that getResistingForceIncInertia
\* or getMass had fetched
C16_Witness ==
  /\ last.op = "addInertiaLoadToUnbalance" /\ pc = "run" /\ wire = <<>>
  /\ massFlag /\ sent.mass = 1
  /\ theLoad # ZeroVector(Len(theLoad))

\* C17: once the element is attached numBasicDOF stays as it is under every
\* operation, and on a connected element db, vb, ab and qDaq have numBasicDOF
\* entries each.
C17_NumBasicDOFFixed ==
  /\ [][theDomain => numBasicDOF' = numBasicDOF]_vars
  /\ [](theChannel = "up"
          => /\ Len(db(sData)) = numBasicDOF /\ Len(vb(sData)) = numBasicDOF
             /\ Len(ab(sData)) = numBasicDOF /\ Len(qDaq(rData)) = numBasicDOF)

\* the damping reply entry that lands on position p of theMatrix, 0 where none
\* does
DampReplyAt(p) ==
  LET hit == {ij \in (1..numBasicDOF) \X (1..numBasicDOF) :
                <<basicDOF[ij[1]], basicDOF[ij[2]]>> = p}
  IN IF hit = {} THEN 0
     ELSE LET ij == CHOOSE x \in hit : TRUE
          IN ReplyMatrix(RemoteTest_getDamp, ij[1] - 1, ij[2] - 1)

\* C18: after a getDamp whose round trip succeeded theMatrix is the damping
\* reply scattered at the basicDOF positions, with the Rayleigh matrix of the
\* base class added when addRayleigh is 1 and with nothing else when it is not;
\* nothing that an earlier call left in theMatrix is in it.
C18_DampIsReplyPlusRayleigh ==
  Succeeded("getDamp")
    => \A p \in DOMAIN theMatrix :
         theMatrix[p] = DampReplyAt(p)
                          + (IF cfg.ray = 1 THEN RayleighDamp(numDOF)[p] ELSE 0)

\* a getDamp with Rayleigh damping came back as the fourth call or later, on
\* a container that has positions outside basicDOF
C18_Witness ==
  /\ Succeeded("getDamp") /\ cfg.ray = 1 /\ ops >= 4
  /\ \E p \in DOMAIN theMatrix : DampReplyAt(p) = 0 /\ theMatrix[p] # 0

\* the channel could not be made or opened, or the sizing message did not go
\* out, in the most recent call
SetupFailed(evs) ==
  \/ evs = <<>> /\ theChannel = "null"
  \/ \E k \in 1..Len(evs) : evs[k].kind \in {"open", "handshake"} /\ ~evs[k].ok

\* C19: an update that returns hands back a failure and has sent no
\* SET_TRIAL_RESPONSE when the channel could not be opened or the sizing
\* message could not be sent; otherwise it has sent exactly one
\* SET_TRIAL_RESPONSE and hands back the status of that send.
C19_UpdateSetupLaw ==
  (last.op = "update" /\ pc = "run")
    => IF SetupFailed(wire)
         THEN last.failed /\ Count(wire, RemoteTest_setTrialResponse) = 0
       ELSE /\ Count(wire, RemoteTest_setTrialResponse) = 1
            /\ Cardinality(Sends(wire)) = 1
            /\ last.failed = (\E k \in Sends(wire) : ~wire[k].ok)

\* C20: an update that returned success has sent the whole of the send buffer,
\* with SET_TRIAL_RESPONSE at index 0, the current time of the domain in the
\* time slot, and in slot k of the displacement, velocity and acceleration
\* regions the trial displacement, velocity and acceleration of the node and
\* DOF that basic index k stands for, whatever the update before it sent.
C20_TrialPayload ==
  (last.op = "update" /\ pc = "run" /\ ~last.failed)
    => /\ Cardinality(Sends(wire)) = 1
       /\ \A s \in Sends(wire) :
            LET data == wire[s].data
            IN /\ Len(data) = dataSize
               /\ data[1] = RemoteTest_setTrialResponse
               /\ data[2 + 3*numBasicDOF] = trial
               /\ \A i \in 1..numExternalNodes : \A j \in 1..Len(cfg.dof[i]) :
                    LET k == SelectedBefore(i) + j
                        d == cfg.dof[i][j] + 1
                    IN /\ data[1 + k] = TrialDisp(trial, i)[d]
                       /\ data[1 + numBasicDOF + k] = TrialVel(trial, i)[d]
                       /\ data[1 + 2*numBasicDOF + k] = TrialAccel(trial, i)[d]

\* an element of two nodes and three or more basic DOFs that was connected
\* by an earlier update sends the response of a later trial state
C20_Witness ==
  /\ last.op = "update" /\ pc = "run" /\ ~last.failed
  /\ CountKind(wire, "open") = 0 /\ Cardinality(Sends(wire)) = 1
  /\ trial # 1 /\ numExternalNodes = 2 /\ numBasicDOF >= 3

\* M holds, at (basicDOF[i], basicDOF[j]), entry (i,j) of the reply to code
\* that the remote process gave in one of its trial states, and 0 elsewhere
ScatterOfAReply(M, code) ==
  \E r \in Trials :
    /\ \A i, j \in 1..numBasicDOF :
         M[<<basicDOF[i], basicDOF[j]>>]
           = Reply(code, r, (j - 1) * numBasicDOF + (i - 1) + 1)
    /\ \A p \in DOMAIN M :
         (~\E i, j \in 1..numBasicDOF : p = <<basicDOF[i], basicDOF[j]>>) => M[p] = 0

\* C21: in every state, theInitStiff is the scatter of a GET_INITIAL_STIFF
\* reply while initStiffFlag is true and theMass is the scatter of a GET_MASS
\* reply while massFlag is true, also after setDomain has attached the element
\* again.
C21_FlagMeansCached ==
  /\ initStiffFlag => ScatterOfAReply(theInitStiff, RemoteTest_getInitialStiff)
  /\ massFlag => ScatterOfAReply(theMass, RemoteTest_getMass)

\* evs holds a send of code that went out, followed by a receive that
\* brought the whole reply
RoundTripDone(evs, code) ==
  \E k \in 1..(Len(evs) - 1) :
    /\ evs[k].kind = "send" /\ evs[k].data[1] = code /\ evs[k].ok
    /\ evs[k + 1].kind = "recv" /\ evs[k + 1].ok

\* C22: initStiffFlag (massFlag) goes from false to true only in a call whose
\* GET_INITIAL_STIFF (GET_MASS) was sent and answered in full, and a
\* getInitialStiff (getMass) call that follows one whose round trip failed
\* sends the command again.
C22_LatchOnlyOnSuccess ==
  [][/\ (~initStiffFlag /\ initStiffFlag')
           => RoundTripDone(wire', RemoteTest_getInitialStiff)
     /\ (~massFlag /\ massFlag') => RoundTripDone(wire', RemoteTest_getMass)
     /\ (last.op = "getInitialStiff" /\ IOFailed(wire) /\ pc' = "run"
           /\ last'.op = "getInitialStiff" /\ ops' = ops + 1)
           => Count(wire', RemoteTest_getInitialStiff) = 1
     /\ (last.op = "getMass" /\ IOFailed(wire) /\ pc' = "run"
           /\ last'.op = "getMass" /\ ops' = ops + 1)
           => Count(wire', RemoteTest_getMass) = 1]_vars

\* v is the force vector the remote process replies to GET_FORCE in one of
\* its trial states
IsForceReply(v) ==
  \E r \in Trials : v = [i \in 1..Len(v) |-> Reply(RemoteTest_getForce, r, i)]

\* C23: getResponse with id 3 hands out qDaq; after a getResistingForce whose
\* round trip succeeded qDaq is the GET_FORCE reply; and once qDaq holds a
\* force reply, a call that sends no GET_FORCE leaves it as it is, whatever
\* matrix reply the call receives.
C23_BasicForceKept ==
  /\ []((eleInfo.id = 3 /\ pc = "run") => eleInfo.data = qDaq(rData))
  /\ [](Succeeded("getResistingForce")
          => qDaq(rData) = [i \in 1..viewSize |-> ReplyVector(RemoteTest_getForce, i - 1)])
  /\ [][(theChannel = "up" /\ pc' = "run" /\ IsForceReply(qDaq(rData))
          /\ Count(wire', RemoteTest_getForce) = 0)
           => VectorView(rData', 0, viewSize') = qDaq(rData)]_vars

\* the operations that work on the channel and its buffers without setting
\* the connection up
ChannelUsers ==
  Getters \cup InertiaOps \cup {"commitState", "Print", "getResponse"}

\* C24: commitState, a getter, getResistingForceIncInertia,
\* addInertiaLoadToUnbalance, Print or getResponse called on an element whose
\* connection is not set up puts nothing on the channel and does not go
\* through the buffers, which do not exist.
C24_NoUseBeforeConnect ==
  (last.op \in ChannelUsers /\ theChannel # "up") => (pc = "run" /\ wire = <<>>)
====
